---- MODULE Spec2Model ----
(***************************************************************************)
(* CoBrain desktop shell (Tauri v2): system tray, global shortcut, window  *)
(* commands and notifications.                                             *)
(*   apps/desktop/src-tauri/src/main.rs                                     *)
(*   apps/desktop/src-tauri/src/tray.rs                                     *)
(*                                                                         *)
(* The host (windowing system, shortcut manager, notification centre) is   *)
(* the environment.  Every host call that returns a Result in the source   *)
(* has two outcomes here, Ok and Err; the code decides what becomes of an  *)
(* Err (`?` propagates it, `let _ =` discards it, map_err renders it).     *)
(***************************************************************************)
EXTENDS Integers, Sequences, FiniteSets, TLC

(***************************************************************************)
(* Bounds of the model.                                                    *)
(***************************************************************************)
MaxNotifications == 1

(***************************************************************************)
(* Values of the program.                                                  *)
(***************************************************************************)
\* main.rs:52,67,75,82 and tray.rs:22,28,42: the label every lookup uses
MainLabel == "main"

\* the labels of the windows the host knows; this code creates none
WindowLabels == {"main"}

\* main.rs:56,85 and tray.rs:31: the script handed to window.eval
CaptureScript == "window.location.href = '/capture'"

\* what the webview shows before anything navigates it
InitialTarget == "/"

\* main.rs:47: Shortcut::new(Some(CONTROL | SHIFT), Code::Space)
shortcut == [mods |-> {"CONTROL", "SHIFT"}, code |-> "Space"]

\* tray.rs:10-13: the ids of the four menu items, in creation order
MenuItemIds == <<"open", "capture", "sep", "quit">>

\* ids a menu event can carry: the four items and one id nobody created
MenuEventIds == {"open", "capture", "sep", "quit", "other"}

\* tray icon events: clicks of each button (pressed and released) and
\* the events that are not clicks
TrayIconEvents ==
    [type : {"Click"}, button : {"Left", "Right", "Middle"},
     button_state : {"Up"}]
    \cup {[type |-> "Click", button |-> "Left", button_state |-> "Down"],
          [type |-> "DoubleClick", button |-> "Left", button_state |-> "Up"],
          [type |-> "Enter", button |-> "None", button_state |-> "None"]}

\* the hotkey event the plugin hands to the handler (ignored by it)
ShortcutStates == {"Pressed", "Released"}

\* notification inputs and the errors the host facility can answer with
Titles == {"T", ""}
Bodies == {"B"}
HostErrors == {"NotPermitted", "Io"}

\* the order of the fallible steps of the setup closure (main.rs:19-33)
SetupSteps ==
    <<"open", "capture", "sep", "quit", "menu", "tray",
      "on_shortcut", "register", "done">>

VARIABLES
    lifecycle,   \* "setup", "running", "aborted" (startup failed), "exited"
    step,        \* index in SetupSteps of the next setup step
    setupError,  \* the setup step that failed, or "none"
    exitCode,    \* the code passed to app.exit, or -1
    items,       \* menu items created so far (sequence of ids)
    menu,        \* the menu built from the items, or << >>
    tray,        \* TRUE once the tray icon is built with both callbacks
    bound,       \* shortcuts that have a handler (on_shortcut)
    registered,  \* shortcuts the host was asked to register, in order
    win,         \* the host's "main" window
    last,        \* the last trigger dispatched, or "none"
    found,       \* whether that trigger's lookup returned Some(window)
    issued,      \* the window calls that trigger issued, with outcomes
    notifs,      \* send_notification invocations and their results
    posted       \* the attempts made on the host notification facility

vars == <<lifecycle, step, setupError, exitCode, items, menu, tray, bound,
          registered, win, last, found, issued, notifs, posted>>

setupVars == <<step, setupError, items, menu, tray, bound, registered>>
notifVars == <<notifs, posted>>
trigVars  == <<last, found, issued>>

NoWindow ==
    [present |-> FALSE, visible |-> FALSE, focused |-> FALSE,
     nav |-> InitialTarget]

Init ==
    /\ lifecycle = "setup"
    /\ step = 1
    /\ setupError = "none"
    /\ exitCode = -1
    /\ items = << >>
    /\ menu = << >>
    /\ tray = FALSE
    /\ bound = {}
    /\ registered = << >>
    /\ win = NoWindow
    /\ last = [src |-> "none", id |-> ""]
    /\ found = FALSE
    /\ issued = << >>
    /\ notifs = << >>
    /\ posted = << >>


(***************************************************************************)
(* Startup: the setup closure of main (main.rs:19-33).  Each host call     *)
(* followed by `?` either succeeds or returns the error out of the         *)
(* closure; Builder::run then returns Err and .expect panics               *)
(* (main.rs:40-41), so the application never runs.                         *)
(***************************************************************************)
Abort ==
    /\ lifecycle' = "aborted"
    /\ setupError' = SetupSteps[step]
    /\ UNCHANGED <<step, exitCode, items, menu, tray, bound, registered>>

\* tray.rs:10-13: MenuItem::with_id(app, id, ...)?  for the four items
MenuItem_with_id(ok) ==
    /\ lifecycle = "setup"
    /\ step \in 1..Len(MenuItemIds)
    /\ IF ok
       THEN /\ items' = Append(items, MenuItemIds[step])
            /\ step' = step + 1
            /\ UNCHANGED <<lifecycle, setupError, exitCode, menu, tray,
                           bound, registered>>
       ELSE Abort
    /\ UNCHANGED <<win, last, found, issued, notifs, posted>>

\* tray.rs:15: Menu::with_items(app, &[open, capture, separator, quit])?
Menu_with_items(ok) ==
    /\ lifecycle = "setup"
    /\ SetupSteps[step] = "menu"
    /\ IF ok
       THEN /\ menu' = items
            /\ step' = step + 1
            /\ UNCHANGED <<lifecycle, setupError, exitCode, items, tray,
                           bound, registered>>
       ELSE Abort
    /\ UNCHANGED <<win, last, found, issued, notifs, posted>>

\* tray.rs:17-50: TrayIconBuilder::new().menu(..).on_menu_event(..)
\*                .on_tray_icon_event(..).build(app)?
TrayIconBuilder_build(ok) ==
    /\ lifecycle = "setup"
    /\ SetupSteps[step] = "tray"
    /\ IF ok
       THEN /\ tray' = TRUE
            /\ step' = step + 1
            /\ UNCHANGED <<lifecycle, setupError, exitCode, items, menu,
                           bound, registered>>
       ELSE Abort
    /\ UNCHANGED <<win, last, found, issued, notifs, posted>>

\* main.rs:50-58: app.global_shortcut().on_shortcut(shortcut, handler)?
on_shortcut(ok) ==
    /\ lifecycle = "setup"
    /\ SetupSteps[step] = "on_shortcut"
    /\ IF ok
       THEN /\ bound' = bound \cup {shortcut}
            /\ step' = step + 1
            /\ UNCHANGED <<lifecycle, setupError, exitCode, items, menu,
                           tray, registered>>
       ELSE Abort
    /\ UNCHANGED <<win, last, found, issued, notifs, posted>>

\* mutant: the result of register is discarded instead of propagated
register_IgnoreError(ok) ==
    /\ lifecycle = "setup"
    /\ SetupSteps[step] = "register"
    /\ IF ok
       THEN /\ registered' = Append(registered, shortcut)
            /\ UNCHANGED setupError
       ELSE /\ setupError' = SetupSteps[step]
            /\ UNCHANGED registered
    /\ step' = step + 1
    /\ UNCHANGED <<lifecycle, exitCode, items, menu, tray, bound>>
    /\ UNCHANGED <<win, last, found, issued, notifs, posted>>

\* mutant: the shortcut is registered a second time
register_Twice(ok) ==
    /\ lifecycle = "setup"
    /\ SetupSteps[step] = "register"
    /\ IF ok
       THEN /\ registered' = Append(Append(registered, shortcut), shortcut)
            /\ step' = step + 1
            /\ UNCHANGED <<lifecycle, setupError, exitCode, items, menu,
                           tray, bound>>
       ELSE Abort
    /\ UNCHANGED <<win, last, found, issued, notifs, posted>>

\* main.rs:60: app.global_shortcut().register(shortcut)?
register(ok) ==
    /\ lifecycle = "setup"
    /\ SetupSteps[step] = "register"
    /\ IF ok
       THEN /\ registered' = Append(registered, shortcut)
            /\ step' = step + 1
            /\ UNCHANGED <<lifecycle, setupError, exitCode, items, menu,
                           tray, bound>>
       ELSE Abort
    /\ UNCHANGED <<win, last, found, issued, notifs, posted>>

\* main.rs:26-32,40: the closure returns Ok(()) and the event loop runs
setup_done ==
    /\ lifecycle = "setup"
    /\ SetupSteps[step] = "done"
    /\ lifecycle' = "running"
    /\ UNCHANGED <<step, setupError, exitCode, items, menu, tray, bound,
                   registered>>
    /\ UNCHANGED <<win, last, found, issued, notifs, posted>>

(***************************************************************************)
(* The host's window.  This code never creates or destroys it; the host    *)
(* creates it at a time of its own choosing, shown or hidden.              *)
(***************************************************************************)
HostCreatesWindow ==
    /\ lifecycle \in {"setup", "running"}
    /\ ~win.present
    /\ \E v \in BOOLEAN, f \in BOOLEAN :
          win' = [present |-> TRUE, visible |-> v, focused |-> f,
                  nav |-> InitialTarget]
    /\ last' = [src |-> "host", id |-> "window_created"]
    /\ found' = FALSE
    /\ issued' = << >>
    /\ UNCHANGED <<lifecycle, exitCode, notifs, posted>>
    /\ UNCHANGED setupVars

\* app.get_webview_window(label): Some(window) or None
get_webview_window(label) ==
    label \in WindowLabels /\ label = MainLabel /\ win.present

\* what the webview does with a script handed to eval
EvalTarget(js, cur) ==
    IF js = CaptureScript THEN "/capture" ELSE cur

\* one call on the window handle: the host carries it out (ok) or
\* answers Err and leaves the window as it was
WindowCall(w, call, ok) ==
    IF ~ok THEN w
    ELSE CASE call.op = "show"      -> [w EXCEPT !.visible = TRUE]
           [] call.op = "set_focus" -> [w EXCEPT !.focused = TRUE]
           [] call.op = "hide"      -> [w EXCEPT !.visible = FALSE]
           [] call.op = "eval"      -> [w EXCEPT !.nav = EvalTarget(call.arg, w.nav)]
           [] OTHER                 -> w

show      == [op |-> "show", arg |-> ""]
set_focus == [op |-> "set_focus", arg |-> ""]
hide      == [op |-> "hide", arg |-> ""]
eval(js)  == [op |-> "eval", arg |-> js]

\* the calls of a handler body in order, each result discarded (let _ =)
RECURSIVE RunCalls(_, _, _)
RunCalls(w, calls, oks) ==
    IF calls = << >> THEN w
    ELSE RunCalls(WindowCall(w, Head(calls), Head(oks)),
                  Tail(calls), Tail(oks))

Trace(calls, oks) ==
    [i \in 1..Len(calls) |-> [op |-> calls[i].op, arg |-> calls[i].arg,
                              ok |-> oks[i]]]

\* mutant: each result is propagated (?), so the first failed call ends the
\* handler and the calls after it are not made
IfLetSomeWindow_StopAtError(calls) ==
    IF get_webview_window("main")
    THEN \E oks \in [1..Len(calls) -> BOOLEAN] :
            LET failed == {i \in 1..Len(calls) : ~oks[i]}
                n == IF failed = {} THEN Len(calls)
                     ELSE CHOOSE i \in failed : \A j \in failed : i <= j
            IN  /\ win' = RunCalls(win, SubSeq(calls, 1, n), SubSeq(oks, 1, n))
                /\ issued' = Trace(SubSeq(calls, 1, n), SubSeq(oks, 1, n))
                /\ found' = TRUE
    ELSE /\ win' = win
         /\ issued' = << >>
         /\ found' = FALSE

\* mutant: the calls are made without looking the window up
IfLetSomeWindow_Unchecked(calls) ==
    \E oks \in [1..Len(calls) -> BOOLEAN] :
       /\ win' = RunCalls(win, calls, oks)
       /\ issued' = Trace(calls, oks)
       /\ found' = win.present

\* if let Some(window) = app.get_webview_window("main") { calls }
IfLetSomeWindow(calls) ==
    IF get_webview_window("main")
    THEN \E oks \in [1..Len(calls) -> BOOLEAN] :
            /\ win' = RunCalls(win, calls, oks)
            /\ issued' = Trace(calls, oks)
            /\ found' = TRUE
    ELSE /\ win' = win
         /\ issued' = << >>
         /\ found' = FALSE


(***************************************************************************)
(* Triggers.  The host's event loop dispatches them one at a time while    *)
(* the application runs; each handler body is one step.                    *)
(***************************************************************************)
Trigger(src, id) == [src |-> src, id |-> id]

\* mutant: an id that is none of "open", "capture", "quit" opens the window
on_menu_event_DefaultOpens(id) ==
    /\ lifecycle = "running"
    /\ tray
    /\ last' = Trigger("menu", id)
    /\ CASE id = "capture" ->
              /\ IfLetSomeWindow(<<show, set_focus, eval(CaptureScript)>>)
              /\ UNCHANGED <<lifecycle, exitCode>>
         [] id = "quit" ->
              /\ lifecycle' = "exited"
              /\ exitCode' = 0
              /\ found' = FALSE
              /\ issued' = << >>
              /\ UNCHANGED win
         [] OTHER ->
              /\ IfLetSomeWindow(<<show, set_focus>>)
              /\ UNCHANGED <<lifecycle, exitCode>>
    /\ UNCHANGED setupVars
    /\ UNCHANGED notifVars

\* mutant: "quit" exits only when the main window is there
on_menu_event_QuitNeedsWindow(id) ==
    /\ lifecycle = "running"
    /\ tray
    /\ last' = Trigger("menu", id)
    /\ CASE id = "open" ->
              /\ IfLetSomeWindow(<<show, set_focus>>)
              /\ UNCHANGED <<lifecycle, exitCode>>
         [] id = "capture" ->
              /\ IfLetSomeWindow(<<show, set_focus, eval(CaptureScript)>>)
              /\ UNCHANGED <<lifecycle, exitCode>>
         [] id = "quit" /\ get_webview_window("main") ->
              /\ lifecycle' = "exited"
              /\ exitCode' = 0
              /\ found' = FALSE
              /\ issued' = << >>
              /\ UNCHANGED win
         [] OTHER ->
              /\ found' = FALSE
              /\ issued' = << >>
              /\ UNCHANGED <<lifecycle, exitCode, win>>
    /\ UNCHANGED setupVars
    /\ UNCHANGED notifVars

\* tray.rs:20-38: .on_menu_event(move |app, event| match event.id.as_ref())
on_menu_event(id) ==
    /\ lifecycle = "running"
    /\ tray
    /\ last' = Trigger("menu", id)
    /\ CASE id = "open" ->
              /\ IfLetSomeWindow(<<show, set_focus>>)
              /\ UNCHANGED <<lifecycle, exitCode>>
         [] id = "capture" ->
              /\ IfLetSomeWindow(<<show, set_focus, eval(CaptureScript)>>)
              /\ UNCHANGED <<lifecycle, exitCode>>
         [] id = "quit" ->
              /\ lifecycle' = "exited"
              /\ exitCode' = 0
              /\ found' = FALSE
              /\ issued' = << >>
              /\ UNCHANGED win
         [] OTHER ->
              /\ found' = FALSE
              /\ issued' = << >>
              /\ UNCHANGED <<lifecycle, exitCode, win>>
    /\ UNCHANGED setupVars
    /\ UNCHANGED notifVars

\* mutant: a click of any button opens the window
on_tray_icon_event_AnyButton(event) ==
    /\ lifecycle = "running"
    /\ tray
    /\ last' = Trigger("tray", IF event.type = "Click" THEN event.button
                                ELSE event.type)
    /\ IF event.type = "Click"
       THEN IfLetSomeWindow(<<show, set_focus>>)
       ELSE /\ found' = FALSE
            /\ issued' = << >>
            /\ UNCHANGED win
    /\ UNCHANGED <<lifecycle, exitCode>>
    /\ UNCHANGED setupVars
    /\ UNCHANGED notifVars

\* mutant: the left click shows the window and does not focus it
on_tray_icon_event_NoFocus(event) ==
    /\ lifecycle = "running"
    /\ tray
    /\ last' = Trigger("tray", IF event.type = "Click" THEN event.button
                                ELSE event.type)
    /\ IF event.type = "Click" /\ event.button = "Left"
       THEN IfLetSomeWindow(<<show>>)
       ELSE /\ found' = FALSE
            /\ issued' = << >>
            /\ UNCHANGED win
    /\ UNCHANGED <<lifecycle, exitCode>>
    /\ UNCHANGED setupVars
    /\ UNCHANGED notifVars

\* tray.rs:39-47: .on_tray_icon_event(|tray, event| if let Click{Left,..})
on_tray_icon_event(event) ==
    /\ lifecycle = "running"
    /\ tray
    /\ last' = Trigger("tray", IF event.type = "Click" THEN event.button
                                ELSE event.type)
    /\ IF event.type = "Click" /\ event.button = "Left"
       THEN IfLetSomeWindow(<<show, set_focus>>)
       ELSE /\ found' = FALSE
            /\ issued' = << >>
            /\ UNCHANGED win
    /\ UNCHANGED <<lifecycle, exitCode>>
    /\ UNCHANGED setupVars
    /\ UNCHANGED notifVars

\* mutant: the hotkey focuses and navigates and does not show the window
shortcut_handler_NoShow(sc, state) ==
    /\ lifecycle = "running"
    /\ sc \in bound
    /\ \E i \in 1..Len(registered) : registered[i] = sc
    /\ last' = Trigger("hotkey", state)
    /\ IfLetSomeWindow(<<set_focus, eval(CaptureScript)>>)
    /\ UNCHANGED <<lifecycle, exitCode>>
    /\ UNCHANGED setupVars
    /\ UNCHANGED notifVars

\* mutant: the hotkey navigates before it shows and focuses
shortcut_handler_NavigateFirst(sc, state) ==
    /\ lifecycle = "running"
    /\ sc \in bound
    /\ \E i \in 1..Len(registered) : registered[i] = sc
    /\ last' = Trigger("hotkey", state)
    /\ IfLetSomeWindow(<<eval(CaptureScript), show, set_focus>>)
    /\ UNCHANGED <<lifecycle, exitCode>>
    /\ UNCHANGED setupVars
    /\ UNCHANGED notifVars

\* main.rs:50-58: the closure bound to the shortcut; it ignores its
\* arguments (_app, _shortcut, _event)
shortcut_handler(sc, state) ==
    /\ lifecycle = "running"
    /\ sc \in bound
    /\ \E i \in 1..Len(registered) : registered[i] = sc
    /\ last' = Trigger("hotkey", state)
    /\ IfLetSomeWindow(<<show, set_focus, eval(CaptureScript)>>)
    /\ UNCHANGED <<lifecycle, exitCode>>
    /\ UNCHANGED setupVars
    /\ UNCHANGED notifVars

\* mutant: the command also navigates to the capture page
show_main_window_Navigates ==
    /\ lifecycle = "running"
    /\ last' = Trigger("command", "show_main_window")
    /\ IfLetSomeWindow(<<show, set_focus, eval(CaptureScript)>>)
    /\ UNCHANGED <<lifecycle, exitCode>>
    /\ UNCHANGED setupVars
    /\ UNCHANGED notifVars

\* mutant: the command toggles the window instead of showing it
show_main_window_Toggle ==
    /\ lifecycle = "running"
    /\ last' = Trigger("command", "show_main_window")
    /\ IF win.visible
       THEN IfLetSomeWindow(<<hide>>)
       ELSE IfLetSomeWindow(<<show, set_focus>>)
    /\ UNCHANGED <<lifecycle, exitCode>>
    /\ UNCHANGED setupVars
    /\ UNCHANGED notifVars

\* main.rs:65-71
show_main_window ==
    /\ lifecycle = "running"
    /\ last' = Trigger("command", "show_main_window")
    /\ IfLetSomeWindow(<<show, set_focus>>)
    /\ UNCHANGED <<lifecycle, exitCode>>
    /\ UNCHANGED setupVars
    /\ UNCHANGED notifVars

\* mutant: the command minds the focus and leaves the window visible
hide_main_window_NoHide ==
    /\ lifecycle = "running"
    /\ last' = Trigger("command", "hide_main_window")
    /\ IfLetSomeWindow(<<set_focus>>)
    /\ UNCHANGED <<lifecycle, exitCode>>
    /\ UNCHANGED setupVars
    /\ UNCHANGED notifVars

\* main.rs:73-78
hide_main_window ==
    /\ lifecycle = "running"
    /\ last' = Trigger("command", "hide_main_window")
    /\ IfLetSomeWindow(<<hide>>)
    /\ UNCHANGED <<lifecycle, exitCode>>
    /\ UNCHANGED setupVars
    /\ UNCHANGED notifVars

\* mutant: the command shows and focuses and does not navigate
open_quick_capture_NoNavigate ==
    /\ lifecycle = "running"
    /\ last' = Trigger("command", "open_quick_capture")
    /\ IfLetSomeWindow(<<show, set_focus>>)
    /\ UNCHANGED <<lifecycle, exitCode>>
    /\ UNCHANGED setupVars
    /\ UNCHANGED notifVars

\* main.rs:80-87
open_quick_capture ==
    /\ lifecycle = "running"
    /\ last' = Trigger("command", "open_quick_capture")
    /\ IfLetSomeWindow(<<show, set_focus, eval(CaptureScript)>>)
    /\ UNCHANGED <<lifecycle, exitCode>>
    /\ UNCHANGED setupVars
    /\ UNCHANGED notifVars

(***************************************************************************)
(* send_notification (main.rs:89-105) is an async command: the invocation  *)
(* creates the future, and its body runs later, apart from the window      *)
(* handlers.                                                               *)
(***************************************************************************)
\* the text the host's error renders to (Display)
HostErrorText(e) ==
    CASE e = "NotPermitted" -> "notifications are not permitted"
      [] e = "Io"           -> "io error"
      [] OTHER              -> "unknown error"

\* main.rs:102: .map_err(|e| e.to_string())
to_string(e) == HostErrorText(e)

Pending == [status |-> "pending", msg |-> ""]
Ok      == [status |-> "ok", msg |-> ""]
Err(m)  == [status |-> "err", msg |-> m]

\* main.rs:90-94: the command is invoked with (app, title, body)
send_notification_invoke(title, body) ==
    /\ lifecycle = "running"
    /\ Len(notifs) < MaxNotifications
    /\ notifs' = Append(notifs, [title |-> title, body |-> body,
                                 result |-> Pending])
    /\ UNCHANGED <<lifecycle, exitCode, win, last, found, issued, posted>>
    /\ UNCHANGED setupVars

\* mutant: the command brings the window up before it posts the notification
send_notification_ShowsWindow(i, outcome) ==
    /\ lifecycle = "running"
    /\ i \in 1..Len(notifs)
    /\ notifs[i].result = Pending
    /\ posted' = Append(posted, [req |-> i, title |-> notifs[i].title,
                                 body |-> notifs[i].body,
                                 outcome |-> outcome])
    /\ notifs' = [notifs EXCEPT ![i].result =
                     IF outcome = "ok" THEN Ok ELSE Err(to_string(outcome))]
    /\ win' = IF get_webview_window("main")
              THEN WindowCall(win, show, TRUE) ELSE win
    /\ UNCHANGED <<lifecycle, exitCode, last, found, issued>>
    /\ UNCHANGED setupVars

\* mutant: a failed attempt is made again before the error is returned
send_notification_Retry(i, outcome) ==
    /\ lifecycle = "running"
    /\ i \in 1..Len(notifs)
    /\ notifs[i].result = Pending
    /\ LET attempt == [req |-> i, title |-> notifs[i].title,
                       body |-> notifs[i].body, outcome |-> outcome]
       IN  posted' = IF outcome = "ok" THEN Append(posted, attempt)
                     ELSE Append(Append(posted, attempt), attempt)
    /\ notifs' = [notifs EXCEPT ![i].result =
                     IF outcome = "ok" THEN Ok ELSE Err(to_string(outcome))]
    /\ UNCHANGED <<lifecycle, exitCode, win, last, found, issued>>
    /\ UNCHANGED setupVars

\* main.rs:97-104: builder().title(&title).body(&body).show()
\*                 .map_err(|e| e.to_string())?;  Ok(())
send_notification(i, outcome) ==
    /\ lifecycle = "running"
    /\ i \in 1..Len(notifs)
    /\ notifs[i].result = Pending
    /\ posted' = Append(posted, [req |-> i, title |-> notifs[i].title,
                                 body |-> notifs[i].body,
                                 outcome |-> outcome])
    /\ notifs' = [notifs EXCEPT ![i].result =
                     IF outcome = "ok" THEN Ok ELSE Err(to_string(outcome))]
    /\ UNCHANGED <<lifecycle, exitCode, win, last, found, issued>>
    /\ UNCHANGED setupVars

Next ==
    \/ \E ok \in BOOLEAN : MenuItem_with_id(ok)
    \/ \E ok \in BOOLEAN : Menu_with_items(ok)
    \/ \E ok \in BOOLEAN : TrayIconBuilder_build(ok)
    \/ \E ok \in BOOLEAN : on_shortcut(ok)
    \/ \E ok \in BOOLEAN : register(ok)
    \/ setup_done
    \/ HostCreatesWindow
    \/ \E id \in MenuEventIds : on_menu_event(id)
    \/ \E event \in TrayIconEvents : on_tray_icon_event(event)
    \/ \E state \in ShortcutStates : shortcut_handler(shortcut, state)
    \/ show_main_window
    \/ hide_main_window
    \/ open_quick_capture
    \/ \E title \in Titles, body \in Bodies :
          send_notification_invoke(title, body)
    \/ \E i \in 1..MaxNotifications, outcome \in {"ok"} \cup HostErrors :
          send_notification(i, outcome)

Spec == Init /\ [][Next]_vars

TypeOK ==
    /\ lifecycle \in {"setup", "running", "aborted", "exited"}
    /\ step \in 1..Len(SetupSteps)
    /\ win \in [present : BOOLEAN, visible : BOOLEAN, focused : BOOLEAN,
                nav : {InitialTarget, "/capture"}]
    /\ Len(notifs) <= MaxNotifications
    /\ Len(posted) <= MaxNotifications


(***************************************************************************)
(* Properties.                                                             *)
(***************************************************************************)
Ops(tr) == [i \in 1..Len(tr) |-> [op |-> tr[i].op, arg |-> tr[i].arg]]
AllOk(tr) == \A i \in 1..Len(tr) : tr[i].ok

IsCaptureTrigger(t) ==
    \/ t = Trigger("menu", "capture")
    \/ t = Trigger("command", "open_quick_capture")
    \/ t.src = "hotkey"

IsOpenTrigger(t) ==
    \/ t = Trigger("menu", "open")
    \/ t = Trigger("tray", "Left")
    \/ t = Trigger("command", "show_main_window")

IsHideTrigger(t) == t = Trigger("command", "hide_main_window")

\* C1 as stated: after a capture trigger (menu "capture", open_quick_capture,
\* hotkey) that found the main window, the window is visible, focused and
\* its navigation target is "/capture".
C1_AsStated ==
    (IsCaptureTrigger(last) /\ found)
        => (win.visible /\ win.focused /\ win.nav = "/capture")

\* C1 amended: a capture trigger that found the main window has issued
\* show, set_focus and the navigation to "/capture" in this order, and the
\* window is visible, focused and at "/capture" as far as the host carried
\* out the call concerned; a call the host failed was discarded.
C1_CapturePost ==
    (IsCaptureTrigger(last) /\ found)
        => /\ Ops(issued) = <<show, set_focus, eval(CaptureScript)>>
           /\ issued[1].ok => win.visible
           /\ issued[2].ok => win.focused
           /\ issued[3].ok => win.nav = "/capture"

C1_Witness ==
    /\ last.src = "hotkey"
    /\ found
    /\ AllOk(issued)
    /\ win.visible /\ win.focused /\ win.nav = "/capture"

\* C2 as stated: after an open trigger (menu "open", tray left click,
\* show_main_window) that found the main window, the window is visible and
\* focused.
C2_AsStated ==
    (IsOpenTrigger(last) /\ found) => (win.visible /\ win.focused)

\* C2 amended: an open trigger that found the main window has issued show
\* and set_focus in this order, and the window is visible and focused as far
\* as the host carried out the call concerned.
C2_OpenPost ==
    (IsOpenTrigger(last) /\ found)
        => /\ Ops(issued) = <<show, set_focus>>
           /\ issued[1].ok => win.visible
           /\ issued[2].ok => win.focused

C2_Witness ==
    /\ last = Trigger("tray", "Left")
    /\ found
    /\ AllOk(issued)
    /\ win.visible /\ win.focused

\* C3: in the window calls a handler issues, every show is followed at once
\* by set_focus, every set_focus follows a show at once, and a navigation
\* comes after the handler's show and set_focus and before none of them.
C3_ShowFocusNavigateOrder ==
    \A i \in 1..Len(issued) :
        /\ issued[i].op = "show"
              => (i < Len(issued) /\ issued[i + 1].op = "set_focus")
        /\ issued[i].op = "set_focus"
              => (i > 1 /\ issued[i - 1].op = "show")
        /\ issued[i].op = "eval"
              => /\ \E j \in 1..(i - 1) : issued[j].op = "show"
                 /\ \E j \in 1..(i - 1) : issued[j].op = "set_focus"
                 /\ \A j \in (i + 1)..Len(issued) :
                       issued[j].op \notin {"show", "set_focus"}

C3_Witness ==
    /\ last.src = "hotkey"
    /\ found
    /\ Len(issued) = 3
    /\ issued[3].op = "eval"


\* a step of a handler that targets the window
WindowTriggerStep ==
    \/ on_menu_event("open")
    \/ on_menu_event("capture")
    \/ \E e \in TrayIconEvents :
          e.type = "Click" /\ e.button = "Left" /\ on_tray_icon_event(e)
    \/ \E state \in ShortcutStates : shortcut_handler(shortcut, state)
    \/ show_main_window
    \/ hide_main_window
    \/ open_quick_capture

NoEffect ==
    /\ issued' = << >>
    /\ win' = win
    /\ lifecycle' = lifecycle
    /\ exitCode' = exitCode
    /\ UNCHANGED setupVars
    /\ UNCHANGED notifVars

\* C4: a window-targeting trigger (menu "open", menu "capture", tray left
\* click, hotkey, show_main_window, hide_main_window, open_quick_capture)
\* fired while the main window is absent issues no window call, ends no
\* run of the application and leaves window, lifecycle and the rest of the
\* state as they were.
C4_AbsentWindowNoOp ==
    [][(~win.present /\ WindowTriggerStep) => NoEffect]_vars

C4_Witness ==
    /\ lifecycle = "running"
    /\ last = Trigger("menu", "capture")
    /\ ~found
    /\ ~win.present
    /\ issued = << >>

\* C5 as stated: hide_main_window on a present window yields visible = FALSE;
\* on an absent window it changes nothing.
C5_AsStated ==
    /\ []((IsHideTrigger(last) /\ found) => ~win.visible)
    /\ [][(~win.present /\ hide_main_window) => NoEffect]_vars

\* C5 amended: hide_main_window on a present window issues hide, and the
\* window is not visible if the host carried the call out (a failed hide is
\* discarded and leaves visibility as it was); on an absent window it
\* changes nothing.
C5_HidePost ==
    /\ []((IsHideTrigger(last) /\ found)
             => /\ Ops(issued) = <<hide>>
                /\ issued[1].ok => ~win.visible)
    /\ [][(~win.present /\ hide_main_window) => NoEffect]_vars

C5_Witness ==
    /\ IsHideTrigger(last)
    /\ found
    /\ AllOk(issued)
    /\ win.present /\ ~win.visible

Attempts(i) == {k \in 1..Len(posted) : posted[k].req = i}

\* C6: send_notification(title, body) makes exactly one attempt on the host
\* notification facility with that title and body; it returns Ok when the
\* host succeeds and Err with the host's error text when the host fails,
\* and it neither ends the application nor tries again.
C6_NotificationResult ==
    /\ [](\A i \in 1..Len(notifs) :
            IF notifs[i].result = Pending
            THEN Attempts(i) = {}
            ELSE /\ Cardinality(Attempts(i)) = 1
                 /\ \A k \in Attempts(i) :
                      /\ posted[k].title = notifs[i].title
                      /\ posted[k].body = notifs[i].body
                      /\ posted[k].outcome = "ok" => notifs[i].result = Ok
                      /\ posted[k].outcome # "ok" =>
                           notifs[i].result =
                               Err(HostErrorText(posted[k].outcome)))
    /\ [][posted' # posted => lifecycle' = lifecycle]_vars

C6_Witness ==
    \E i \in 1..Len(notifs) :
        /\ notifs[i].result = Err(HostErrorText("NotPermitted"))
        /\ \E k \in 1..Len(posted) :
              posted[k].req = i /\ posted[k].outcome = "NotPermitted"

\* C7: when a fatal setup step fails (a menu item, the menu, the tray build,
\* the shortcut handler binding or the registration), startup is aborted for
\* good and no tray menu, tray click, hotkey or command was or will be
\* dispatched.
C7_SetupFailureAborts ==
    /\ [](setupError # "none"
            => /\ lifecycle = "aborted"
               /\ last.src \notin {"menu", "tray", "hotkey", "command"}
               /\ notifs = << >>)
    /\ [][lifecycle = "aborted" => UNCHANGED vars]_vars

C7_Witness ==
    /\ setupError = "register"
    /\ tray
    /\ menu = MenuItemIds
    /\ lifecycle = "aborted"

C9_QuitIsTerminal ==
    /\ [](last = Trigger("menu", "quit")
            => (lifecycle = "exited" /\ exitCode = 0))
    /\ [](lifecycle = "exited" => exitCode = 0)
    /\ [][lifecycle = "exited"
            => (win' = win /\ lifecycle' = "exited")]_vars

C9_Witness ==
    /\ last = Trigger("menu", "quit")
    /\ lifecycle = "exited"
    /\ exitCode = 0
    /\ ~win.present

C11_OtherTrayEventsIgnored ==
    [][(\E e \in TrayIconEvents :
            /\ ~(e.type = "Click" /\ e.button = "Left")
            /\ on_tray_icon_event(e))
          => (win' = win /\ issued' = << >>)]_vars

C11_Witness ==
    /\ lifecycle = "running"
    /\ last = Trigger("tray", "Right")
    /\ win.present
    /\ ~win.visible /\ ~win.focused
    /\ issued = << >>

\* the step at hand can also be taken by B, up to the name of the trigger:
\* B can lead from the same state to the same window, the same issued calls
\* with the same outcomes, and the same rest of the state
Agrees(B) ==
    \E w \in {win'}, i \in {issued'}, f \in {found'}, l \in {lifecycle'},
       x \in {exitCode'}, n \in {notifs'}, p \in {posted'} :
        ENABLED (/\ B
                 /\ win' = w
                 /\ issued' = i
                 /\ found' = f
                 /\ lifecycle' = l
                 /\ exitCode' = x
                 /\ notifs' = n
                 /\ posted' = p)

HotkeyStep == \E state \in ShortcutStates : shortcut_handler(shortcut, state)
MenuCaptureStep == on_menu_event("capture")

\* C12: the hotkey handler, the command open_quick_capture and the menu item
\* "capture" are interchangeable: whatever one of them does from a state
\* (window present or absent), each of the other two can do from that state,
\* issuing the same window calls and reaching the same window state.  (What
\* the hotkey does the command can do, what the command does the menu item
\* can do, and what the menu item does the hotkey can do.)
C12_CaptureTriggersEquivalent ==
    [][/\ HotkeyStep => Agrees(open_quick_capture)
       /\ open_quick_capture => Agrees(MenuCaptureStep)
       /\ MenuCaptureStep => Agrees(HotkeyStep)]_vars

C12_Witness ==
    /\ last = Trigger("menu", "capture")
    /\ found
    /\ Len(issued) = 3
    /\ win.nav = "/capture"


\* C13: a menu event whose id is "sep" or any id other than "open",
\* "capture" and "quit" issues no window call, does not exit the application
\* and leaves the whole state as it was.
C13_OtherMenuIdsNoOp ==
    [][(\E id \in MenuEventIds \ {"open", "capture", "quit"} :
            on_menu_event(id))
          => NoEffect]_vars

C13_Witness ==
    /\ lifecycle = "running"
    /\ last = Trigger("menu", "sep")
    /\ win.present
    /\ ~win.visible
    /\ issued = << >>

OpenStep ==
    \/ on_menu_event("open")
    \/ \E e \in TrayIconEvents : on_tray_icon_event(e)
    \/ show_main_window

\* C14: the navigation target is its initial value or "/capture" in every
\* state; only a capture trigger that found the window changes it, and the
\* open triggers (menu "open", tray events, show_main_window) and
\* hide_main_window leave it as it was.
C14_NavigationOnlyByCapture ==
    /\ [](win.nav \in {InitialTarget, "/capture"})
    /\ [][win'.nav # win.nav
            => (IsCaptureTrigger(last') /\ found' /\ win'.nav = "/capture")]_vars
    /\ [][(OpenStep \/ hide_main_window) => win'.nav = win.nav]_vars

C14_Witness ==
    /\ IsHideTrigger(last)
    /\ found
    /\ AllOk(issued)
    /\ win.nav = "/capture"


NotificationStep ==
    \/ \E title \in Titles, body \in Bodies :
          send_notification_invoke(title, body)
    \/ \E i \in 1..MaxNotifications, outcome \in {"ok"} \cup HostErrors :
          send_notification(i, outcome)

TriggerStep ==
    \/ \E id \in MenuEventIds : on_menu_event(id)
    \/ \E e \in TrayIconEvents : on_tray_icon_event(e)
    \/ HotkeyStep
    \/ show_main_window
    \/ hide_main_window
    \/ open_quick_capture

\* C15: send_notification and the window triggers do not interfere: no step
\* of send_notification (invocation or body) changes the window, the record
\* of the last trigger or the lifecycle; no trigger changes a notification
\* or its result; while the application runs an in-flight notification
\* blocks no window trigger and no trigger blocks the notification; and the
\* result of a notification is the one the host facility's answer decides.
C15_NotificationIndependent ==
    /\ [][NotificationStep
            => /\ UNCHANGED <<win, last, found, issued, lifecycle, exitCode>>
               /\ UNCHANGED setupVars]_vars
    /\ [][TriggerStep => UNCHANGED notifVars]_vars
    /\ [](lifecycle = "running"
            => /\ ENABLED show_main_window
               /\ ENABLED hide_main_window
               /\ ENABLED open_quick_capture
               /\ ENABLED HotkeyStep
               /\ ENABLED MenuCaptureStep
               /\ \A i \in 1..Len(notifs) :
                     notifs[i].result = Pending
                        => \A outcome \in {"ok"} \cup HostErrors :
                              ENABLED send_notification(i, outcome))
    /\ [](\A k \in 1..Len(posted) :
            notifs[posted[k].req].result =
               IF posted[k].outcome = "ok" THEN Ok
               ELSE Err(HostErrorText(posted[k].outcome)))

C15_Witness ==
    /\ Len(notifs) >= 1
    /\ notifs[1].result = Pending
    /\ IsCaptureTrigger(last)
    /\ found
    /\ AllOk(issued)
    /\ win.visible /\ win.focused /\ win.nav = "/capture"

\* the calls the handler of a trigger makes on a window it found
ExpectedCalls(t) ==
    IF IsCaptureTrigger(t) THEN <<show, set_focus, eval(CaptureScript)>>
    ELSE IF IsOpenTrigger(t) THEN <<show, set_focus>>
    ELSE IF IsHideTrigger(t) THEN <<hide>>
    ELSE << >>

\* C16: a handler that found the window issues all its window calls in
\* order whatever the host answers to each: a failed show, set_focus or
\* navigation stops none of the calls after it, and the handler neither
\* returns an error nor ends the application.
C16_ResultsDiscarded ==
    /\ [](found => /\ Ops(issued) = ExpectedCalls(last)
                   /\ issued # << >>
                   /\ lifecycle = "running")
    /\ [][WindowTriggerStep
            => (lifecycle' = lifecycle /\ exitCode' = exitCode)]_vars

C16_Witness ==
    /\ last.src = "hotkey"
    /\ found
    /\ Len(issued) = 3
    /\ ~issued[1].ok /\ ~issued[2].ok /\ issued[3].ok
    /\ win.nav = "/capture"
    /\ lifecycle = "running"

====
